---- MODULE Spec2Model ----
(***************************************************************************)
(* Commit-to-session time estimator of the Time-management repository.     *)
(*                                                                         *)
(* GitTimeAnalyzer (git-analyzer.js, listed in FINAL-STATUS.md) groups the *)
(* commits of a repository into sessions and estimates their duration;     *)
(* FreelancerWorkLog (scripts/freelancer-worklog.js) aggregates the        *)
(* sessions of an analysis into daily / weekly totals and dashboard        *)
(* metrics.                                                                *)
(*                                                                         *)
(* Units.  A Date is a number of seconds (git log --date=iso has second    *)
(* resolution; the code's milliseconds are these values times 1000).       *)
(* maxSessionGap is in hours, minSessionTime / defaultSessionTime and      *)
(* session.duration in minutes, session.hours and totalHours in            *)
(* hundredths of an hour (the code rounds them to 2 decimals), bucket      *)
(* hours in sixtieths of an hour (the code adds duration / 60).            *)
(***************************************************************************)
EXTENDS Integers, Sequences, FiniteSets, TLC

(* ------------------------------ bounds -------------------------------- *)

\* longest git log explored
MaxCommits == 3

\* number of analyzeSessions / analyze invocations explored on one analyzer
MaxCalls == 2

\* longest git log explored for the session descriptions
MaxDescribed == 5

(* ------------------------------ inputs -------------------------------- *)

Authors == {"A", "B"}

\* commit dates (seconds of local time since Thursday 1970-01-01 0:00:00):
\* Saturday 22:00:00 and 22:00:30, Sunday 0:00:00 and 0:00:30
Dates == {252000, 252030, 259200, 259230}

\* an option of the constructor's options object: absent, or given a value
Absent == [given |-> FALSE, val |-> 0]

Given(v) == [given |-> TRUE, val |-> v]

\* the options objects explored
OptionSets ==
    { [maxSessionGap |-> Absent,   minSessionTime |-> Absent,    defaultSessionTime |-> Absent],
      [maxSessionGap |-> Given(1), minSessionTime |-> Absent,    defaultSessionTime |-> Absent],
      [maxSessionGap |-> Absent,   minSessionTime |-> Given(45), defaultSessionTime |-> Given(10)],
      [maxSessionGap |-> Given(0), minSessionTime |-> Given(0),  defaultSessionTime |-> Given(0)] }

\* the outputs of `git log` explored: up to MaxCommits lines in any order;
\* a commit's hash is its line number, its message names the line
GitLogs ==
    UNION { { [k \in 1..n |-> [hash |-> k, author |-> f[k][1], date |-> f[k][2],
                                message |-> "fix " \o ToString(k)]] :
                f \in [1..n -> Authors \X Dates] } : n \in 0..MaxCommits }

\* the outputs of `git log` explored for the session descriptions: up to
\* MaxDescribed commits of one minute, so that sessions are runs of an author
DescribedLogs ==
    UNION { { [k \in 1..n |-> [hash |-> k, author |-> f[k], date |-> 252000,
                                message |-> "fix " \o ToString(k)]] :
                f \in [1..n -> Authors] } : n \in 0..MaxDescribed }

(* --------------------------- arithmetic ------------------------------- *)

\* Math.max
Max(a, b) == IF a >= b THEN a ELSE b

\* Math.round(n / d) for d > 0: the nearest integer, halves towards +infinity
Round(n, d) == (2 * n + d) \div (2 * d)

\* JavaScript's a || b on numbers: 0 (like undefined) is falsy
OrDefault(opt, dflt) == IF opt.given /\ opt.val # 0 THEN opt.val ELSE dflt

(* ------------------------- GitTimeAnalyzer ---------------------------- *)

\* insert commit c behind every commit of the sorted list s dated <= c.date
RECURSIVE InsertByDate(_, _)
InsertByDate(c, s) ==
    IF s = <<>> THEN <<c>>
    ELSE IF s[Len(s)].date <= c.date THEN Append(s, c)
    ELSE Append(InsertByDate(c, SubSeq(s, 1, Len(s) - 1)), s[Len(s)])

\* .sort((a, b) => a.date - b.date): ascending by date, stable
RECURSIVE SortByDate(_)
SortByDate(s) ==
    IF s = <<>> THEN <<>>
    ELSE InsertByDate(s[Len(s)], SortByDate(SubSeq(s, 1, Len(s) - 1)))

\* getCommits without its .sort(): the lines in git log's order
getCommitsUnsorted(log) == log

\* getCommits: the parsed lines of git log, sorted by date
getCommits(log) == SortByDate(log)

\* currentSession = null
null == [start |-> 0, end |-> 0, commits |-> <<>>, author |-> ""]

\* { start: commit.date, end: commit.date, commits: [commit], author: ... }
newSession(commit) ==
    [start |-> commit.date, end |-> commit.date, commits |-> <<commit>>,
     author |-> commit.author]

\* messages.join('; ')
RECURSIVE join(_)
join(messages) ==
    IF messages = <<>> THEN ""
    ELSE IF Len(messages) = 1 THEN messages[1]
    ELSE join(SubSeq(messages, 1, Len(messages) - 1)) \o "; " \o messages[Len(messages)]

\* commits.map(c => c.message).slice(0, 3)
firstMessages(cs) == [k \in 1..(IF Len(cs) < 3 THEN Len(cs) ELSE 3) |-> cs[k].message]

\* generateSessionDescription with >= 3 for > 3
generateSessionDescriptionFromThree(cs) ==
    IF Len(cs) = 1 THEN cs[1].message
    ELSE IF Len(cs) >= 3
         THEN join(firstMessages(cs)) \o " (and " \o ToString(Len(cs) - 3) \o " more commits)"
         ELSE join(firstMessages(cs))

\* generateSessionDescription
generateSessionDescription(cs) ==
    IF Len(cs) = 1 THEN cs[1].message
    ELSE IF Len(cs) > 3
         THEN join(firstMessages(cs)) \o " (and " \o ToString(Len(cs) - 3) \o " more commits)"
         ELSE join(firstMessages(cs))

\* durationSeconds without the buffer: Math.max(sessionSpan, minSessionTime)
durationSecondsNoBuffer(session, dflt, min) ==
    IF Len(session.commits) = 1
    THEN dflt * 60
    ELSE Max(session.end - session.start, min * 60)

\* durationSeconds without the floor: sessionSpan + defaultSessionTime
durationSecondsNoFloor(session, dflt, min) ==
    IF Len(session.commits) = 1
    THEN dflt * 60
    ELSE (session.end - session.start) + dflt * 60

\* the unrounded duration of finalizeSession, in seconds
durationSeconds(session, dflt, min) ==
    IF Len(session.commits) = 1
    THEN dflt * 60
    ELSE Max((session.end - session.start) + dflt * 60, min * 60)

\* finalizeSession deriving hours from the rounded duration
finalizeSessionHoursOfMinutes(session, dflt, min) ==
    [start       |-> session.start,
     end         |-> session.end,
     commits     |-> session.commits,
     author      |-> session.author,
     duration    |-> Round(durationSeconds(session, dflt, min), 60),
     hours       |-> Round(Round(durationSeconds(session, dflt, min), 60) * 100, 60),
     commitCount |-> Len(session.commits),
     description |-> generateSessionDescription(session.commits)]

\* finalizeSession
finalizeSession(session, dflt, min) ==
    [start       |-> session.start,
     end         |-> session.end,
     commits     |-> session.commits,
     author      |-> session.author,
     duration    |-> Round(durationSeconds(session, dflt, min), 60),
     hours       |-> Round(durationSeconds(session, dflt, min), 36),
     commitCount |-> Len(session.commits),
     description |-> generateSessionDescription(session.commits)]

\* continuesSession without the author test
continuesSessionAnyAuthor(commit, session, gap) ==
    commit.date - session.end <= gap * 3600

\* continuesSession with < for <=
continuesSessionStrict(commit, session, gap) ==
    /\ commit.date - session.end < gap * 3600
    /\ commit.author = session.author

\* timeSinceLastCommit <= this.maxSessionGap && commit.author === currentSession.author
continuesSession(commit, session, gap) ==
    /\ commit.date - session.end <= gap * 3600
    /\ commit.author = session.author

RECURSIVE SumHours(_)
\* sessions.reduce((total, session) => total + session.hours, 0)
SumHours(ss) == IF ss = <<>> THEN 0 ELSE SumHours(Tail(ss)) + Head(ss).hours

(* ------------------------- FreelancerWorkLog -------------------------- *)

\* new Date(session.start).toLocaleDateString(): the calendar day, as the
\* number of days since 1970-01-01
toLocaleDateString(date) == date \div 86400

\* Date.prototype.getDay of a calendar day: 0 is Sunday; 1970-01-01 was a Thursday
getDay(day) == (day + 4) % 7

\* weekStart anchored on Monday
weekStartMonday(date) ==
    toLocaleDateString(date) - ((getDay(toLocaleDateString(date)) + 6) % 7)

\* weekStart.setDate(date.getDate() - date.getDay()), as a calendar day
weekStart(date) == toLocaleDateString(date) - getDay(toLocaleDateString(date))

\* position of key in the bucket list b, 0 if it has no bucket
RECURSIVE bucketIndex(_, _)
bucketIndex(b, key) ==
    IF b = <<>> THEN 0
    ELSE IF b[Len(b)].key = key THEN Len(b)
    ELSE bucketIndex(SubSeq(b, 1, Len(b) - 1), key)

\* session.commitCount || session.commits.length
commitsOf(session) ==
    IF session.commitCount # 0 THEN session.commitCount ELSE Len(session.commits)

\* calculateWeeklyTotals: the buckets in insertion order; hours in minutes / 60
RECURSIVE calculateWeeklyTotals(_)
calculateWeeklyTotals(ss) ==
    IF ss = <<>> THEN <<>>
    ELSE LET weekly  == calculateWeeklyTotals(SubSeq(ss, 1, Len(ss) - 1))
             session == ss[Len(ss)]
             weekKey == weekStart(session.start)
             at      == bucketIndex(weekly, weekKey)
             w       == IF at = 0
                        THEN Append(weekly, [key |-> weekKey, hours |-> 0,
                                             sessions |-> 0, commits |-> 0])
                        ELSE weekly
             k       == IF at = 0 THEN Len(w) ELSE at
         IN  [w EXCEPT ![k].hours = @ + session.duration,
                       ![k].sessions = @ + 1,
                       ![k].commits = @ + commitsOf(session)]

\* calculateDailyTotals keyed by the date of session.end
RECURSIVE calculateDailyTotalsByEnd(_)
calculateDailyTotalsByEnd(ss) ==
    IF ss = <<>> THEN <<>>
    ELSE LET daily   == calculateDailyTotalsByEnd(SubSeq(ss, 1, Len(ss) - 1))
             session == ss[Len(ss)]
             date    == toLocaleDateString(session.end)
             at      == bucketIndex(daily, date)
             d       == IF at = 0
                        THEN Append(daily, [key |-> date, hours |-> 0, sessions |-> 0])
                        ELSE daily
             k       == IF at = 0 THEN Len(d) ELSE at
         IN  [d EXCEPT ![k].hours = @ + session.duration,
                       ![k].sessions = @ + 1]

\* calculateDailyTotals assigning where it should add: hours = duration / 60
RECURSIVE calculateDailyTotalsAssigning(_)
calculateDailyTotalsAssigning(ss) ==
    IF ss = <<>> THEN <<>>
    ELSE LET daily   == calculateDailyTotalsAssigning(SubSeq(ss, 1, Len(ss) - 1))
             session == ss[Len(ss)]
             date    == toLocaleDateString(session.start)
             at      == bucketIndex(daily, date)
             d       == IF at = 0
                        THEN Append(daily, [key |-> date, hours |-> 0, sessions |-> 0])
                        ELSE daily
             k       == IF at = 0 THEN Len(d) ELSE at
         IN  [d EXCEPT ![k].hours = session.duration,
                       ![k].sessions = @ + 1]

\* calculateDailyTotals: the buckets in insertion order; hours in minutes / 60
RECURSIVE calculateDailyTotals(_)
calculateDailyTotals(ss) ==
    IF ss = <<>> THEN <<>>
    ELSE LET daily   == calculateDailyTotals(SubSeq(ss, 1, Len(ss) - 1))
             session == ss[Len(ss)]
             date    == toLocaleDateString(session.start)
             at      == bucketIndex(daily, date)
             d       == IF at = 0
                        THEN Append(daily, [key |-> date, hours |-> 0, sessions |-> 0])
                        ELSE daily
             k       == IF at = 0 THEN Len(d) ELSE at
         IN  [d EXCEPT ![k].hours = @ + session.duration,
                       ![k].sessions = @ + 1]

\* (n / d).toFixed(1) of JavaScript numbers n / d given as the fraction
\* num / den: 0 / 0 is NaN, x / 0 is Infinity, else the value in tenths
toFixed1(num, den) ==
    IF den = 0
    THEN IF num = 0 THEN [text |-> "NaN", tenths |-> 0]
         ELSE [text |-> "Infinity", tenths |-> 0]
    ELSE [text |-> "number", tenths |-> Round(num * 10, den)]

\* generateDashboard: the bucket maps and the Key Metrics card
dashboardOf(analysisData) ==
    [totalHours     |-> analysisData.totalHours,
     weeklyData     |-> calculateWeeklyTotals(analysisData.sessions),
     dailyData      |-> calculateDailyTotals(analysisData.sessions),
     \* (totalHours / sessions.length).toFixed(1), totalHours in hundredths
     averageSession |-> toFixed1(analysisData.totalHours,
                                 100 * Len(analysisData.sessions)),
     \* (totalCommits / totalHours).toFixed(1)
     commitsPerHour |-> toFixed1(100 * analysisData.totalCommits,
                                 analysisData.totalHours)]

(* ------------------------------ state --------------------------------- *)

VARIABLES
    options,            \* the options object given to the constructor
    maxSessionGap,      \* this.maxSessionGap (hours)
    minSessionTime,     \* this.minSessionTime (minutes)
    defaultSessionTime, \* this.defaultSessionTime (minutes)
    gitlog,             \* the repository's git log output
    pc,                 \* "idle", or "loop" inside analyzeSessions
    mode,               \* the running call: "analyzeSessions" or "analyze"
    commits,            \* analyzeSessions' argument
    i,                  \* loop index of analyzeSessions (1-based)
    currentSession,     \* local of analyzeSessions
    sessions,           \* local of analyzeSessions
    results,            \* what the completed calls returned, in call order
    dashboard,          \* the metrics of the generated dashboard, if any
    fs,                 \* the files the scripts read and write, by path
    procs,              \* the running git-csv-exporter.js processes
    integration,        \* the KimaiIntegration object (config.apiToken, authToken)
    importer,           \* the kimai-integration.js command and its position
    requests,           \* the makeRequest calls, in the order they were issued
    worklog             \* the FreelancerWorkLog.processRepository call

\* the state of the analyzer and of the dashboard built from its results
analysisVars == <<options, maxSessionGap, minSessionTime, defaultSessionTime, gitlog,
                  pc, mode, commits, i, currentSession, sessions, results, dashboard>>

\* the state of the exporters, the Kimai import and the work log
toolVars == <<fs, procs, integration, importer, requests, worklog>>

vars == <<options, maxSessionGap, minSessionTime, defaultSessionTime, gitlog,
          pc, mode, commits, i, currentSession, sessions, results, dashboard,
          fs, procs, integration, importer, requests, worklog>>

\* no exporter, import or work log has been started
toolsIdle ==
    /\ fs = <<>>
    /\ procs = <<>>
    /\ integration = <<>>
    /\ importer = <<>>
    /\ requests = <<>>
    /\ worklog = <<>>

analyzer == <<options, maxSessionGap, minSessionTime, defaultSessionTime>>

\* constructor(options = {})
Init ==
    /\ options \in OptionSets
    /\ maxSessionGap = OrDefault(options.maxSessionGap, 2)
    /\ minSessionTime = OrDefault(options.minSessionTime, 15)
    /\ defaultSessionTime = OrDefault(options.defaultSessionTime, 30)
    /\ gitlog \in GitLogs
    /\ pc = "idle"
    /\ mode = "analyzeSessions"
    /\ commits = <<>>
    /\ i = 0
    /\ currentSession = null
    /\ sessions = <<>>
    /\ results = <<>>
    /\ dashboard = <<>>
    /\ toolsIdle

\* process.cwd(), the path '.' resolves to
cwd == "/home/work"

\* path.resolve(repository), for '.' and for absolute paths
resolve(repository) == IF repository = "." THEN cwd ELSE repository

\* what a completed analyzeSessions(input) call returned
sessionList(input, ss) ==
    [mode |-> "analyzeSessions", commits |-> input, sessions |-> ss]

\* emptyAnalysis billing one default session
emptyAnalysisBilled(cs) ==
    [mode |-> "analyze", commits |-> cs, repository |-> resolve("."),
     totalCommits |-> 0, totalHours |-> 50, sessions |-> <<>>]

\* analyze's record for a repository without commits
emptyAnalysis(cs) ==
    [mode |-> "analyze", commits |-> cs, repository |-> resolve("."),
     totalCommits |-> 0, totalHours |-> 0, sessions |-> <<>>]

\* analyze's record with totalCommits: sessions.length
analysisCountingSessions(cs, ss) ==
    [mode |-> "analyze", commits |-> cs, repository |-> resolve("."),
     totalCommits |-> Len(ss),
     totalHours   |-> Round(SumHours(ss) * 100, 100),
     sessions     |-> ss]

\* analyze's record: totalHours is Math.round(totalHours * 100) / 100
analysis(cs, ss) ==
    [mode |-> "analyze", commits |-> cs, repository |-> resolve("."),
     totalCommits |-> Len(cs),
     totalHours   |-> Round(SumHours(ss) * 100, 100),
     sessions     |-> ss]

\* enterLoop with sessions kept from the previous call
enterLoopKeepingSessions(m, cs) ==
    /\ mode' = m
    /\ commits' = cs
    /\ pc' = "loop"
    /\ i' = 1
    /\ currentSession' = null
    /\ UNCHANGED <<results, sessions>>

\* const sessions = []; let currentSession = null; for (let i = 0; ...
enterLoop(m, cs) ==
    /\ mode' = m
    /\ commits' = cs
    /\ pc' = "loop"
    /\ i' = 1
    /\ currentSession' = null
    /\ sessions' = <<>>
    /\ UNCHANGED results

\* a call that returns at once
returnAtOnce(m, cs, r) ==
    /\ mode' = m
    /\ commits' = cs
    /\ results' = Append(results, r)
    /\ UNCHANGED <<pc, i, currentSession, sessions>>

\* analyzer.analyzeSessions(list) called with the git log lines as they are
\* (the dashboard is the last step of a run: no call follows it)
analyzeSessions ==
    /\ pc = "idle"
    /\ dashboard = <<>>
    /\ Len(results) < MaxCalls
    /\ IF Len(gitlog) = 0
       THEN returnAtOnce("analyzeSessions", gitlog, sessionList(gitlog, <<>>))
       ELSE enterLoop("analyzeSessions", gitlog)
    /\ UNCHANGED <<analyzer, gitlog, dashboard, toolVars>>

\* analyzer.analyze(): getCommits, then analyzeSessions unless there are none
analyze ==
    /\ pc = "idle"
    /\ dashboard = <<>>
    /\ Len(results) < MaxCalls
    /\ LET cs == getCommits(gitlog)
       IN  IF Len(cs) = 0
           THEN returnAtOnce("analyze", cs, emptyAnalysis(cs))
           ELSE enterLoop("analyze", cs)
    /\ UNCHANGED <<analyzer, gitlog, dashboard, toolVars>>

\* sessions.unshift(session)
unshift(ss, session) == <<session>> \o ss

\* sessions.push(session)
push(ss, session) == Append(ss, session)

\* continueSession without currentSession.end = commit.date
continueSessionKeepingEnd(session, commit) ==
    [session EXCEPT !.commits = Append(@, commit)]

\* currentSession.end = commit.date; currentSession.commits.push(commit)
continueSession(session, commit) ==
    [session EXCEPT !.end = commit.date, !.commits = Append(@, commit)]

\* isLastCommit comparing with commits.length
isLastCommitOffByOne(idx, cs) == idx = Len(cs) + 1

\* i === commits.length - 1, for the 1-based index idx
isLastCommit(idx, cs) == idx = Len(cs)

\* one iteration of analyzeSessions' for loop
analyzeSessionsIteration ==
    /\ pc = "loop"
    /\ i <= Len(commits)
    /\ LET commit == commits[i]
           cont   == /\ currentSession # null
                     /\ continuesSession(commit, currentSession, maxSessionGap)
           closed == IF currentSession # null /\ ~cont
                     THEN push(sessions,
                               finalizeSession(currentSession, defaultSessionTime, minSessionTime))
                     ELSE sessions
           cur    == IF cont
                     THEN continueSession(currentSession, commit)
                     ELSE newSession(commit)
       IN  /\ currentSession' = cur
           /\ sessions' = IF isLastCommit(i, commits)
                          THEN push(closed,
                                    finalizeSession(cur, defaultSessionTime, minSessionTime))
                          ELSE closed
    /\ i' = i + 1
    /\ UNCHANGED <<analyzer, gitlog, pc, mode, commits, results, dashboard, toolVars>>

\* return sessions (and, in analyze, the analysis record built from them)
analyzeSessionsReturn ==
    /\ pc = "loop"
    /\ i > Len(commits)
    /\ results' = Append(results, IF mode = "analyze"
                                   THEN analysis(commits, sessions)
                                   ELSE sessionList(commits, sessions))
    /\ pc' = "idle"
    /\ UNCHANGED <<analyzer, gitlog, mode, commits, i, currentSession, sessions,
                   dashboard, toolVars>>

\* index of the latest analysis record among the results, 0 if none
RECURSIVE lastAnalysis(_)
lastAnalysis(rs) ==
    IF rs = <<>> THEN 0
    ELSE IF rs[Len(rs)].mode = "analyze" THEN Len(rs)
    ELSE lastAnalysis(SubSeq(rs, 1, Len(rs) - 1))

\* generateDashboard(analysisFile, ...) on the analysis the analyzer exported
generateDashboard ==
    /\ pc = "idle"
    /\ dashboard = <<>>
    /\ lastAnalysis(results) # 0
    /\ dashboard' = <<dashboardOf(results[lastAnalysis(results)])>>
    /\ UNCHANGED <<analyzer, gitlog, pc, mode, commits, i, currentSession,
                   sessions, results, toolVars>>

Next ==
    \/ analyzeSessions
    \/ analyze
    \/ analyzeSessionsIteration
    \/ analyzeSessionsReturn
    \/ generateDashboard

Spec == Init /\ [][Next]_vars

\* constructor() with the default options, on a repository of DescribedLogs
InitDescribed ==
    /\ options = [maxSessionGap |-> Absent, minSessionTime |-> Absent,
                  defaultSessionTime |-> Absent]
    /\ maxSessionGap = OrDefault(options.maxSessionGap, 2)
    /\ minSessionTime = OrDefault(options.minSessionTime, 15)
    /\ defaultSessionTime = OrDefault(options.defaultSessionTime, 30)
    /\ gitlog \in DescribedLogs
    /\ pc = "idle"
    /\ mode = "analyzeSessions"
    /\ commits = <<>>
    /\ i = 0
    /\ currentSession = null
    /\ sessions = <<>>
    /\ results = <<>>
    /\ dashboard = <<>>
    /\ toolsIdle

SpecDescribed == InitDescribed /\ [][Next]_vars

(* ---------------------- git-analyzer.js as a child --------------------- *)

\* the most sessions a repository of the exporters' runs has
MaxSessions == 2

\* the path of the repository whose history has n sessions
repositoryOf(n) == "/repos/r" \o ToString(n)

\* the repositories the scripts are run on
Repositories == { repositoryOf(n) : n \in 0..MaxSessions }

\* git log of a repository: for n > 0, two commits of A half an hour apart,
\* then single commits of B, A, B, ... 30 seconds apart
gitLogOf(repository) ==
    LET n == CHOOSE m \in 0..MaxSessions : repositoryOf(m) = repository
    IN  IF n = 0 THEN <<>>
        ELSE [k \in 1..(n + 1) |->
                 [hash    |-> k,
                  author  |-> IF k <= 2 \/ k % 2 = 0 THEN "A" ELSE "B",
                  date    |-> IF k = 1 THEN 252000 ELSE 253800 + 30 * (k - 2),
                  message |-> "fix " \o ToString(k)]]

\* the for loop of analyzeSessions from index idx on, with the CLI's
\* configuration (gap 2 hours, single commit 30 minutes, floor 15 minutes)
RECURSIVE analyzeSessionsFrom(_, _, _, _)
analyzeSessionsFrom(cs, idx, cur, ss) ==
    IF idx > Len(cs) THEN ss
    ELSE LET commit == cs[idx]
             cont   == cur # null /\ continuesSession(commit, cur, 2)
             closed == IF cur # null /\ ~cont
                       THEN push(ss, finalizeSession(cur, 30, 15))
                       ELSE ss
             next   == IF cont THEN continueSession(cur, commit) ELSE newSession(commit)
         IN  analyzeSessionsFrom(cs, idx + 1, next,
                 IF isLastCommit(idx, cs)
                 THEN push(closed, finalizeSession(next, 30, 15))
                 ELSE closed)

\* node git-analyzer.js --repository <repository> --output <file>: the JSON
\* that analyzer.exportToFile(analysis, options.output) writes
gitAnalyzer(repository) ==
    LET cs == getCommits(gitLogOf(repository))
        r  == IF Len(cs) = 0 THEN emptyAnalysis(cs)
              ELSE analysis(cs, analyzeSessionsFrom(cs, 1, null, <<>>))
    IN  [r EXCEPT !.repository = resolve(repository)]

(* --------------------------- GitToCSVExporter --------------------------- *)

\* `${record[field]}` in a template literal: a missing property reads undefined
interpolate(record, field) ==
    IF field \in DOMAIN record THEN ToString(record[field]) ELSE "undefined"

\* path.basename(path) of the paths the scripts are given
basename(path) ==
    IF path \in Repositories
    THEN "r" \o ToString(CHOOSE m \in 0..MaxSessions : repositoryOf(m) = path)
    ELSE "work"

\* date.toLocaleTimeString(): the time of the day, without the day
toLocaleTimeString(date) == date % 86400

\* (minutes / 60).toFixed(2), in hundredths of an hour
toFixed2(minutes) == Round(minutes * 100, 60)

\* session.commitCount || session.commits.length
commitCountOf(session) ==
    IF session.commitCount # 0 THEN session.commitCount ELSE Len(session.commits)

\* the row convertToCSV pushes for a session
csvRow(session, repository, projectName) ==
    [date          |-> toLocaleDateString(session.start),
     startTime     |-> toLocaleTimeString(session.start),
     endTime       |-> toLocaleTimeString(session.start + session.duration * 60),
     durationHours |-> toFixed2(session.duration),
     description   |-> session.description,
     project       |-> IF projectName # "" THEN projectName ELSE basename(repository),
     author        |-> session.author,
     commits       |-> commitCountOf(session),
     filesChanged  |-> commitCountOf(session)]

\* convertToCSV(analysisData, options): the rows below the header line
convertToCSV(analysisData, projectName) ==
    [j \in 1..Len(analysisData.sessions) |->
        csvRow(analysisData.sessions[j], analysisData.repository, projectName)]

\* the minutes of the sessions that start on the given day
RECURSIVE minutesOn(_, _)
minutesOn(ss, day) ==
    IF ss = <<>> THEN 0
    ELSE minutesOn(Tail(ss), day)
         + (IF toLocaleDateString(Head(ss).start) = day THEN Head(ss).duration ELSE 0)

\* days in ascending order
RECURSIVE sortDays(_)
sortDays(days) ==
    IF days = {} THEN <<>>
    ELSE LET d == CHOOSE x \in days : \A y \in days : x <= y
         IN  <<d>> \o sortDays(days \ {d})

\* generateSummary(analysisData, outputDir): the text of time-summary.txt
generateSummary(analysisData) ==
    LET ss   == analysisData.sessions
        days == sortDays({ toLocaleDateString(ss[j].start) : j \in 1..Len(ss) })
    IN  [repository    |-> analysisData.repository,
         totalCommits  |-> interpolate(analysisData, "totalCommits"),
         totalSessions |-> interpolate(analysisData, "totalSessions"),
         totalHours    |-> interpolate(analysisData, "totalHours"),
         breakdown     |-> [j \in 1..Len(ss) |->
                               [date          |-> toLocaleDateString(ss[j].start),
                                durationHours |-> toFixed2(ss[j].duration),
                                author        |-> ss[j].author,
                                commits       |-> commitCountOf(ss[j]),
                                description   |-> ss[j].description]],
         dailyTotals   |-> [d \in 1..Len(days) |->
                               [date  |-> days[d],
                                hours |-> toFixed2(minutesOn(ss, days[d]))]]]

(* --------------------------- KimaiIntegration --------------------------- *)

\* String(session.commits): an array of objects in a template literal
RECURSIVE arrayToString(_)
arrayToString(cs) ==
    IF cs = <<>> THEN ""
    ELSE IF Len(cs) = 1 THEN "[object Object]"
    ELSE "[object Object]," \o arrayToString(Tail(cs))

\* config.defaultProject || 1, config.defaultActivity || 1
defaultProject == 1
defaultActivity == 1

\* author.toLowerCase().replace(/\s+/g, '-') of the authors' names
toLowerCase(author) ==
    IF author = "A" THEN "a" ELSE IF author = "B" THEN "b" ELSE author

\* the timesheet convertGitSessionsToTimesheets builds for a session; begin
\* and end are instants in seconds (endTime adds duration * 60 * 60 * 1000 ms)
timesheetOf(session) ==
    [begin       |-> session.start,
     end         |-> session.start + session.duration * 60 * 60,
     project     |-> defaultProject,
     activity    |-> defaultActivity,
     description |-> session.description \o " (" \o arrayToString(session.commits)
                         \o " commits)",
     duration    |-> session.duration,
     tags        |-> <<"git", "development", toLowerCase(session.author)>>]

\* convertGitSessionsToTimesheets(gitAnalysis, projectMapping = {})
convertGitSessionsToTimesheets(gitAnalysis) ==
    [j \in 1..Len(gitAnalysis.sessions) |-> timesheetOf(gitAnalysis.sessions[j])]

(* ------------------------------ the files ------------------------------- *)

\* path.join(__dirname, 'temp-analysis.json'), the same path in both scripts
tempFile == "scripts/temp-analysis.json"

\* the file given to `kimai-integration.js import <file>`
importFile == "analysis.json"

\* a path without a file reads <<>>, a file holds <<its contents>>
existsSync(files, f) == files[f] # <<>>
readFileSync(files, f) == files[f][1]
writeFileSync(files, f, data) == [files EXCEPT ![f] = <<data>>]
unlinkSync(files, f) == [files EXCEPT ![f] = <<>>]

(* ----------------------- KimaiIntegration requests ---------------------- *)

\* the most 'data' events a response delivers
MaxChunks == 2

\* the pieces a response body arrives in
Chunks == {"{\"token\":\"tok\"", "{", "}", "null"}

\* the status codes the server answers with
StatusCodes == {199, 200, 299, 300}

\* JavaScript's null token
NoToken == "null"

\* the values a request resolves with: an object (with or without a token
\* property), null, or the raw text
jsObject(token) == [type |-> "object", token |-> token, text |-> ""]
jsNull == [type |-> "null", token |-> NoToken, text |-> ""]
jsString(text) == [type |-> "string", token |-> NoToken, text |-> text]

\* the value of a promise that has none (pending, rejected or released)
noValue == [type |-> "none", token |-> NoToken, text |-> ""]

\* JSON.parse(text): ok with the value, or a SyntaxError
JSONparse(text) ==
    IF text = "{\"token\":\"tok\"}" THEN [ok |-> TRUE, value |-> jsObject("tok")]
    ELSE IF text = "{}" THEN [ok |-> TRUE, value |-> jsObject(NoToken)]
    ELSE IF text = "null" THEN [ok |-> TRUE, value |-> jsNull]
    ELSE [ok |-> FALSE, value |-> noValue]

\* if (value)
truthy(value) ==
    \/ value.type = "object"
    \/ value.type = "string" /\ value.text # ""

\* makeRequest(endpoint, method, data, headers) up to req.end(): the request
\* as sent, and the pending promise returned
makeRequest(endpoint, method, data, authToken) ==
    [endpoint      |-> endpoint,
     method        |-> method,
     data          |-> data,
     authorization |-> IF authToken # NoToken THEN "Bearer " \o authToken ELSE "",
     transport     |-> "sent",
     statusCode    |-> 0,
     chunks        |-> 0,
     responseData  |-> "",
     promise       |-> "pending",
     value         |-> noValue,
     released      |-> FALSE]

\* resolve(value) or reject(error): only the first call settles a promise
settle(request, outcome, value) ==
    IF request.promise = "pending"
    THEN [request EXCEPT !.promise = outcome, !.value = value]
    ELSE request

\* res.on('end', ...): the try block and its catch
resOnEnd(request) ==
    IF request.statusCode >= 200 /\ request.statusCode < 300
    THEN LET parsed == IF request.responseData # ""
                       THEN JSONparse(request.responseData)
                       ELSE [ok |-> TRUE, value |-> jsObject(NoToken)]
         IN  IF parsed.ok THEN settle(request, "resolved", parsed.value)
             ELSE settle(request, "resolved", jsString(request.responseData))
    ELSE settle(request, "rejected", noValue)

\* req.on('error', ...)
reqOnError(request) == settle(request, "rejected", noValue)

\* the response is garbage once the awaiting code has taken the outcome
release(request) ==
    [request EXCEPT !.responseData = "", !.value = noValue, !.chunks = 0,
                    !.released = TRUE]

(* --------------------- kimai-integration.js commands -------------------- *)

\* the --since / --until / --author options a command line gives
ImportOptions == {{}, {"since"}, {"until"}, {"author"}}

\* new KimaiIntegration(config), and the command of the CLI
newImporter(command, repository, opts) ==
    [command       |-> command,
     repository    |-> repository,
     options       |-> opts,
     pc            |-> "start",
     analysed      |-> FALSE,
     imported      |-> FALSE,
     authenticated |-> FALSE,
     analysisData  |-> <<>>,
     timesheets    |-> <<>>,
     k             |-> 0,
     successCount  |-> 0,
     failCount     |-> 0,
     console       |-> <<>>,
     thrown        |-> FALSE]

\* the file importGitData is given by the command
gitAnalysisFile == IF importer.command = "analyze" THEN tempFile ELSE importFile

\* the last request issued
lastRequest == requests[Len(requests)]

\* the catch of importGitData rethrowing the error
catchImportRethrowing(imp, message) ==
    [imp EXCEPT !.console = Append(@, "Import failed: " \o message),
                !.thrown = TRUE,
                !.pc = "return"]

\* } catch (error) { console.error('Import failed:', error.message); }
catchImport(imp, message) ==
    [imp EXCEPT !.console = Append(@, "Import failed: " \o message),
                !.pc = "return"]

\* the Import Summary lines, after the loop
importSummary(imp) ==
    [imp EXCEPT !.console = Append(@, "created " \o ToString(imp.successCount)
                                      \o " failed " \o ToString(imp.failCount)),
                !.pc = "return"]

\* createTimesheet(timesheets[k]) up to its await
createTimesheet(imp, k, authToken) ==
    makeRequest("/api/timesheets", "POST", imp.timesheets[k], authToken)

\* importGitData after authenticate() returned true: convert the sessions
\* and enter the for loop
enterCreateLoop(imp, sent, authToken) ==
    LET ts   == convertGitSessionsToTimesheets(imp.analysisData[1])
        next == [imp EXCEPT !.authenticated = TRUE, !.timesheets = ts]
    IN  IF ts = <<>>
        THEN /\ importer' = importSummary(next)
             /\ requests' = sent
        ELSE /\ importer' = [next EXCEPT !.k = 1, !.pc = "create"]
             /\ requests' = Append(sent, createTimesheet(next, 1, authToken))

\* what the Kimai actions leave alone
kimaiFrame == UNCHANGED <<analysisVars, procs, worklog>>

\* analyzeAndImport(repositoryPath, options) up to the call of importGitData:
\* `gitCommand +=` assigns to a const, which throws a TypeError
analyzeAndImport ==
    /\ importer # <<>>
    /\ importer.pc = "start"
    /\ importer.command = "analyze"
    /\ IF importer.options # {}
       THEN /\ importer' = [importer EXCEPT
                                !.console = Append(@, "Analysis and import failed: Assignment to constant variable."),
                                !.pc = "done"]
            /\ UNCHANGED fs
       ELSE /\ fs' = writeFileSync(fs, tempFile, gitAnalyzer(importer.repository))
            /\ importer' = [importer EXCEPT !.analysed = TRUE, !.pc = "import"]
    /\ UNCHANGED <<integration, requests>>
    /\ kimaiFrame

\* importGitData(gitAnalysisFile, options) up to its first await:
\* readFileSync, then authenticate()
importGitData ==
    /\ importer # <<>>
    /\ \/ importer.pc = "import"
       \/ importer.pc = "start" /\ importer.command = "import"
    /\ LET imp == [importer EXCEPT !.imported = TRUE]
       IN  IF ~existsSync(fs, gitAnalysisFile)
           THEN /\ importer' = catchImport(imp, "ENOENT")
                /\ UNCHANGED <<integration, requests>>
           ELSE LET analysisData == readFileSync(fs, gitAnalysisFile)
                    read == [imp EXCEPT !.analysisData = <<analysisData>>,
                                        !.console = Append(@, "Importing "
                                            \o interpolate(analysisData, "totalSessions")
                                            \o " sessions")]
                IN  IF integration.apiToken # NoToken
                    THEN /\ integration' = [integration EXCEPT !.authToken = integration.apiToken]
                         /\ enterCreateLoop(read, requests, integration.apiToken)
                    ELSE /\ requests' = Append(requests,
                                makeRequest("/api/auth", "POST", "login", integration.authToken))
                         /\ importer' = [read EXCEPT !.pc = "auth"]
                         /\ UNCHANGED integration
    /\ UNCHANGED fs
    /\ kimaiFrame

\* the request callback (res) => { let responseData = ''; ... }
response ==
    /\ \E r \in 1..Len(requests), status \in StatusCodes :
          /\ requests[r].transport = "sent"
          /\ requests' = [requests EXCEPT ![r].transport = "responding",
                                          ![r].statusCode = status]
    /\ UNCHANGED <<fs, integration, importer>>
    /\ kimaiFrame

\* res.on('data', (chunk) => { responseData += chunk; })
resOnData ==
    /\ \E r \in 1..Len(requests), chunk \in Chunks :
          /\ requests[r].transport = "responding"
          /\ requests[r].chunks < MaxChunks
          /\ requests' = [requests EXCEPT ![r].responseData = @ \o chunk,
                                          ![r].chunks = @ + 1]
    /\ UNCHANGED <<fs, integration, importer>>
    /\ kimaiFrame

\* the response completes: res.on('end', ...)
responseEnd ==
    /\ \E r \in 1..Len(requests) :
          /\ requests[r].transport = "responding"
          /\ requests' = [requests EXCEPT ![r] = resOnEnd([@ EXCEPT !.transport = "ended"])]
    /\ UNCHANGED <<fs, integration, importer>>
    /\ kimaiFrame

\* the connection fails before or during the response: req.on('error', ...)
requestError ==
    /\ \E r \in 1..Len(requests) :
          /\ requests[r].transport \in {"sent", "responding"}
          /\ requests' = [requests EXCEPT ![r] = reqOnError([@ EXCEPT !.transport = "error"])]
    /\ UNCHANGED <<fs, integration, importer>>
    /\ kimaiFrame

\* the server closes the connection after the headers, before the end of
\* the body: the response emits 'aborted' and 'close', never 'end', and the
\* request no 'error'; makeRequest listens to neither
responseAborted ==
    /\ \E r \in 1..Len(requests) :
          /\ requests[r].transport = "responding"
          /\ requests' = [requests EXCEPT ![r].transport = "aborted"]
    /\ UNCHANGED <<fs, integration, importer>>
    /\ kimaiFrame

\* authenticate() after `await this.makeRequest('/api/auth', ...)`, and
\* importGitData after `await this.authenticate()`
authenticate ==
    /\ importer # <<>>
    /\ importer.pc = "auth"
    /\ lastRequest.promise # "pending"
    /\ LET answer == lastRequest
           taken  == [requests EXCEPT ![Len(requests)] = release(@)]
       IN  IF answer.promise = "resolved" /\ answer.value.token # NoToken
           THEN /\ integration' = [integration EXCEPT !.authToken = answer.value.token]
                /\ enterCreateLoop(importer, taken, answer.value.token)
           ELSE /\ importer' = catchImport(importer, "Failed to authenticate with Kimai")
                /\ requests' = taken
                /\ UNCHANGED integration
    /\ UNCHANGED fs
    /\ kimaiFrame

\* the loop ending at the first timesheet that was not created
countResultStoppingAtFailure(imp, result) ==
    IF result.promise = "resolved" /\ truthy(result.value)
    THEN [imp EXCEPT !.successCount = @ + 1, !.pc = "delay"]
    ELSE [imp EXCEPT !.failCount = @ + 1, !.k = Len(imp.timesheets), !.pc = "delay"]

\* if (result) { successCount++; } else { failCount++; }, where result is
\* the response, or null when the request was rejected
countResult(imp, result) ==
    IF result.promise = "resolved" /\ truthy(result.value)
    THEN [imp EXCEPT !.successCount = @ + 1, !.pc = "delay"]
    ELSE [imp EXCEPT !.failCount = @ + 1, !.pc = "delay"]

\* createTimesheet after `await this.makeRequest('/api/timesheets', ...)`,
\* and the loop body up to the 100 ms delay
createTimesheetReturned ==
    /\ importer # <<>>
    /\ importer.pc = "create"
    /\ lastRequest.promise # "pending"
    /\ importer' = countResult(importer, lastRequest)
    /\ requests' = [requests EXCEPT ![Len(requests)] = release(@)]
    /\ UNCHANGED <<fs, integration>>
    /\ kimaiFrame

\* the 100 ms timer fires: the next iteration of the loop, or the summary
delayElapsed ==
    /\ importer # <<>>
    /\ importer.pc = "delay"
    /\ IF importer.k < Len(importer.timesheets)
       THEN /\ importer' = [importer EXCEPT !.k = @ + 1, !.pc = "create"]
            /\ requests' = Append(requests,
                   createTimesheet(importer, importer.k + 1, integration.authToken))
       ELSE /\ importer' = importSummary(importer)
            /\ UNCHANGED requests
    /\ UNCHANGED <<fs, integration>>
    /\ kimaiFrame

\* importGitData has returned (or thrown) to its caller: the CLI's import
\* command, or analyzeAndImport, which then unlinks the temp file
importGitDataReturned ==
    /\ importer # <<>>
    /\ importer.pc = "return"
    /\ IF importer.command = "import"
       THEN /\ importer' = [importer EXCEPT !.pc = "done"]
            /\ UNCHANGED fs
       ELSE IF importer.thrown
       THEN /\ importer' = [importer EXCEPT
                                !.console = Append(@, "Analysis and import failed: import"),
                                !.pc = "done"]
            /\ UNCHANGED fs
       ELSE IF existsSync(fs, tempFile)
       THEN /\ fs' = unlinkSync(fs, tempFile)
            /\ importer' = [importer EXCEPT !.pc = "done"]
       ELSE /\ importer' = [importer EXCEPT
                                !.console = Append(@, "Analysis and import failed: ENOENT"),
                                !.pc = "done"]
            /\ UNCHANGED fs
    /\ UNCHANGED <<integration, requests>>
    /\ kimaiFrame

\* the analyzer left as constructed by default, with nothing to analyse
analysisIdle ==
    /\ options = [maxSessionGap |-> Absent, minSessionTime |-> Absent,
                  defaultSessionTime |-> Absent]
    /\ maxSessionGap = OrDefault(options.maxSessionGap, 2)
    /\ minSessionTime = OrDefault(options.minSessionTime, 15)
    /\ defaultSessionTime = OrDefault(options.defaultSessionTime, 30)
    /\ gitlog = <<>>
    /\ pc = "idle"
    /\ mode = "analyzeSessions"
    /\ commits = <<>>
    /\ i = 0
    /\ currentSession = null
    /\ sessions = <<>>
    /\ results = <<>>
    /\ dashboard = <<>>

\* the files of a kimai-integration.js run
KimaiFiles == {tempFile, importFile}

\* node kimai-integration.js import <file> | analyze <repo>, with or without
\* --token, on a file that exists or not
InitKimai ==
    /\ analysisIdle
    /\ procs = <<>>
    /\ worklog = <<>>
    /\ requests = <<>>
    /\ \E apiToken \in {NoToken, "cli-token"} :
          integration = [apiToken |-> apiToken, authToken |-> NoToken]
    /\ \E command \in {"import", "analyze"}, repository \in Repositories,
          opts \in ImportOptions, given \in BOOLEAN :
          /\ command = "import" => opts = {}
          /\ command = "analyze" => given
          /\ importer = newImporter(command, repository, opts)
          /\ fs = [f \in KimaiFiles |->
                      IF f = importFile /\ command = "import" /\ given
                      THEN <<gitAnalyzer(repository)>> ELSE <<>>]

NextKimai ==
    \/ analyzeAndImport
    \/ importGitData
    \/ response
    \/ resOnData
    \/ responseEnd
    \/ requestError
    \/ responseAborted
    \/ authenticate
    \/ createTimesheetReturned
    \/ delayElapsed
    \/ importGitDataReturned

SpecKimai == InitKimai /\ [][NextKimai]_vars

(* ---------------------- git-csv-exporter.js processes ------------------- *)

\* the git-csv-exporter.js commands that may run at the same time
Pids == {1, 2}

\* the <output.csv> argument of process p, each in a directory of its own
outputFile(p) == "out" \o ToString(p) \o "/timesheet.csv"

\* path.join(path.dirname(outputPath), 'time-summary.txt')
summaryFile(p) == "out" \o ToString(p) \o "/time-summary.txt"

\* the files of the exporter processes
ExportFiles == {tempFile} \cup { outputFile(p) : p \in Pids }
                          \cup { summaryFile(p) : p \in Pids }

\* a process that was not started
off == [pc |-> "off", repository |-> "", summary |-> FALSE,
        analysisData |-> <<>>, exported |-> FALSE, console |-> <<>>]

\* node git-csv-exporter.js <repository> <output.csv> [--summary]
newExporter(repository, summary) ==
    [pc |-> "start", repository |-> repository, summary |-> summary,
     analysisData |-> <<>>, exported |-> FALSE, console |-> <<>>]

\* what the exporter actions leave alone
exportFrame == UNCHANGED <<analysisVars, integration, importer, requests, worklog>>

\* catch of analyzeAndExport (rethrow) and catch of the CLI: process.exit(1)
exportFailed(proc, message) ==
    [proc EXCEPT !.console = Append(@, "Export failed: " \o message),
                 !.pc = "exit1"]

\* analyzeAndExport up to execSync(gitCommand) included: the analyzer child
\* writes the temp file
analyzeAndExport ==
    \E p \in DOMAIN procs :
        /\ procs[p].pc = "start"
        /\ fs' = writeFileSync(fs, tempFile, gitAnalyzer(procs[p].repository))
        /\ procs' = [procs EXCEPT ![p].pc = "read"]
        /\ exportFrame

\* readFileSync(tempFile), convertToCSV, writeFileSync(outputFile) and the
\* Export Complete lines
exportCSV ==
    \E p \in DOMAIN procs :
        /\ procs[p].pc = "read"
        /\ IF ~existsSync(fs, tempFile)
           THEN /\ procs' = [procs EXCEPT ![p] = exportFailed(@, "ENOENT")]
                /\ UNCHANGED fs
           ELSE LET analysisData == readFileSync(fs, tempFile)
                IN  /\ fs' = writeFileSync(fs, outputFile(p), convertToCSV(analysisData, ""))
                    /\ procs' = [procs EXCEPT
                                    ![p].analysisData = <<analysisData>>,
                                    ![p].console = Append(@, "Exported "
                                        \o interpolate(analysisData, "totalSessions")
                                        \o " sessions"),
                                    ![p].pc = "unlink"]
        /\ exportFrame

\* // Clean up temp file, and return outputFile
exportCleanUp ==
    \E p \in DOMAIN procs :
        /\ procs[p].pc = "unlink"
        /\ IF ~existsSync(fs, tempFile)
           THEN /\ procs' = [procs EXCEPT ![p] = exportFailed(@, "ENOENT")]
                /\ UNCHANGED fs
           ELSE /\ fs' = unlinkSync(fs, tempFile)
                /\ procs' = [procs EXCEPT ![p].exported = TRUE, ![p].pc = "main"]
        /\ exportFrame

\* the CLI after `await exporter.analyzeAndExport(...)`:
\* if (options.generateSummary) { if (fs.existsSync(tempFile)) ...
mainAfterExport ==
    \E p \in DOMAIN procs :
        /\ procs[p].pc = "main"
        /\ procs' = [procs EXCEPT ![p].pc =
                        IF procs[p].summary /\ existsSync(fs, tempFile)
                        THEN "summary" ELSE "exit0"]
        /\ UNCHANGED fs
        /\ exportFrame

\* readFileSync(tempFile) and exporter.generateSummary(analysisData, dir)
summaryReport ==
    \E p \in DOMAIN procs :
        /\ procs[p].pc = "summary"
        /\ IF ~existsSync(fs, tempFile)
           THEN /\ procs' = [procs EXCEPT ![p] = exportFailed(@, "ENOENT")]
                /\ UNCHANGED fs
           ELSE /\ fs' = writeFileSync(fs, summaryFile(p),
                                       generateSummary(readFileSync(fs, tempFile)))
                /\ procs' = [procs EXCEPT ![p].pc = "summaryUnlink"]
        /\ exportFrame

\* fs.unlinkSync(tempFile) after the summary
summaryCleanUp ==
    \E p \in DOMAIN procs :
        /\ procs[p].pc = "summaryUnlink"
        /\ IF ~existsSync(fs, tempFile)
           THEN /\ procs' = [procs EXCEPT ![p] = exportFailed(@, "ENOENT")]
                /\ UNCHANGED fs
           ELSE /\ fs' = unlinkSync(fs, tempFile)
                /\ procs' = [procs EXCEPT ![p].pc = "exit0"]
        /\ exportFrame

\* one or two exporter commands are started, each on a repository, with or
\* without --summary; no temp file is left from an earlier run
InitExport ==
    /\ analysisIdle
    /\ integration = <<>>
    /\ importer = <<>>
    /\ requests = <<>>
    /\ worklog = <<>>
    /\ fs = [f \in ExportFiles |-> <<>>]
    /\ procs \in [Pids -> {off} \cup { newExporter(r, s) : r \in Repositories,
                                                          s \in BOOLEAN }]
    /\ \E p \in Pids : procs[p] # off

NextExport ==
    \/ analyzeAndExport
    \/ exportCSV
    \/ exportCleanUp
    \/ mainAfterExport
    \/ summaryReport
    \/ summaryCleanUp

SpecExport == InitExport /\ [][NextExport]_vars

(* -------------------- FreelancerWorkLog.processRepository --------------- *)

\* the four steps of processRepository, in the order of the source
Steps == <<"analysis", "csv", "summary", "dashboard">>

\* path.join(this.outputDir, `${reportPrefix}_<suffix>`)
reportFile(repository, suffix) == "reports/" \o basename(repository) \o "_" \o suffix
analysisFile(repository) == reportFile(repository, "analysis.json")
csvFile(repository) == reportFile(repository, "timesheet.csv")
summaryReportFile(repository) == reportFile(repository, "summary.txt")
dashboardFile(repository) == reportFile(repository, "dashboard.html")

\* the files of the work log runs
WorkLogFiles ==
    {tempFile} \cup { analysisFile(r) : r \in Repositories }
               \cup { csvFile(r) : r \in Repositories }
               \cup { summaryReportFile(r) : r \in Repositories }
               \cup { dashboardFile(r) : r \in Repositories }

\* the --project and --since values of a command line ("" when not given)
Projects == {"", "Client"}
Sinces == {"", "2025-11-01"}

\* the text generateSummaryReport builds
summaryReportOf(analysisData, since) ==
    LET weeklyTotals == calculateWeeklyTotals(analysisData.sessions)
    IN  [repository    |-> analysisData.repository,
         period        |-> IF since # "" THEN since ELSE "All time",
         totalCommits  |-> interpolate(analysisData, "totalCommits"),
         totalSessions |-> Len(analysisData.sessions),
         totalHours    |-> interpolate(analysisData, "totalHours"),
         weekly        |-> IF Len(weeklyTotals) > 1 THEN weeklyTotals ELSE <<>>,
         daily         |-> calculateDailyTotals(analysisData.sessions),
         details       |-> [j \in 1..Len(analysisData.sessions) |->
                               [date        |-> toLocaleDateString(analysisData.sessions[j].start),
                                time        |-> toLocaleTimeString(analysisData.sessions[j].start),
                                hours       |-> toFixed2(analysisData.sessions[j].duration),
                                minutes     |-> analysisData.sessions[j].duration,
                                author      |-> analysisData.sessions[j].author,
                                commits     |-> commitCountOf(analysisData.sessions[j]),
                                description |-> analysisData.sessions[j].description]]]

\* worklog.processRepository(repoPath, options) has been called
newWorkLog(repository, project, since) ==
    [repository |-> repository,
     project    |-> project,
     since      |-> since,
     next       |-> 1,
     running    |-> {},
     log        |-> <<>>,
     outcome    |-> "pending",
     returned   |-> <<>>,
     console    |-> <<>>]

\* what the work log actions leave alone
workLogFrame == UNCHANGED <<analysisVars, procs, integration, importer, requests>>

\* a step called without await
notAwaited(w) == TRUE

\* `await this.<step>(...)`: the call returns before the next statement
awaited(w) == w.running = {}

\* processRepository reaches the call of its next step
processRepository ==
    /\ worklog # <<>>
    /\ worklog.outcome = "pending"
    /\ worklog.next <= Len(Steps)
    /\ awaited(worklog)
    /\ worklog' = [worklog EXCEPT
                      !.running = @ \cup {worklog.next},
                      !.next = @ + 1,
                      !.log = Append(@, [step |-> Steps[worklog.next], event |-> "start"])]
    /\ UNCHANGED fs
    /\ workLogFrame

\* the step has completed: the next statement, or the return of the paths
completed(w, k) ==
    LET done == [w EXCEPT !.running = @ \ {k},
                          !.log = Append(@, [step |-> Steps[k], event |-> "end"])]
    IN  IF k = Len(Steps)
        THEN [done EXCEPT
                 !.outcome = "returned",
                 !.returned = <<[analysis  |-> analysisFile(w.repository),
                                 csv       |-> csvFile(w.repository),
                                 summary   |-> summaryReportFile(w.repository),
                                 dashboard |-> dashboardFile(w.repository)]>>]
        ELSE done

\* } catch (error) { console.error('Processing failed:', ...); throw error; }
failed(w, k) ==
    [w EXCEPT !.running = @ \ {k},
              !.log = Append(@, [step |-> Steps[k], event |-> "fail"]),
              !.console = Append(@, "Processing failed: " \o Steps[k]),
              !.outcome = "thrown"]

\* runGitAnalysis: execSync of git-analyzer.js, which writes the analysis
\* file, or exits with code 1
runGitAnalysis ==
    /\ worklog # <<>>
    /\ worklog.outcome = "pending"
    /\ 1 \in worklog.running
    /\ \E ok \in BOOLEAN :
          IF ok
          THEN /\ fs' = writeFileSync(fs, analysisFile(worklog.repository),
                                      gitAnalyzer(worklog.repository))
               /\ worklog' = completed(worklog, 1)
          ELSE /\ worklog' = failed(worklog, 1)
               /\ UNCHANGED fs
    /\ workLogFrame

\* generateCSVExport: execSync of git-csv-exporter.js, a run of its own
\* analysis through the temp file, which it removes
generateCSVExport ==
    /\ worklog # <<>>
    /\ worklog.outcome = "pending"
    /\ 2 \in worklog.running
    /\ \E ok \in BOOLEAN :
          IF ok
          THEN /\ fs' = unlinkSync(
                            writeFileSync(
                                writeFileSync(fs, tempFile, gitAnalyzer(worklog.repository)),
                                csvFile(worklog.repository),
                                convertToCSV(gitAnalyzer(worklog.repository), worklog.project)),
                            tempFile)
               /\ worklog' = completed(worklog, 2)
          ELSE /\ worklog' = failed(worklog, 2)
               /\ UNCHANGED fs
    /\ workLogFrame

\* generateSummaryReport(analysisFile, summaryFile, options)
generateSummaryReport ==
    /\ worklog # <<>>
    /\ worklog.outcome = "pending"
    /\ 3 \in worklog.running
    /\ \E ok \in BOOLEAN :
          IF ok /\ existsSync(fs, analysisFile(worklog.repository))
          THEN /\ fs' = writeFileSync(fs, summaryReportFile(worklog.repository),
                            summaryReportOf(readFileSync(fs, analysisFile(worklog.repository)),
                                            worklog.since))
               /\ worklog' = completed(worklog, 3)
          ELSE /\ worklog' = failed(worklog, 3)
               /\ UNCHANGED fs
    /\ workLogFrame

\* generateDashboard(analysisFile, dashboardFile, options) writing the file
generateDashboardFile ==
    /\ worklog # <<>>
    /\ worklog.outcome = "pending"
    /\ 4 \in worklog.running
    /\ \E ok \in BOOLEAN :
          IF ok /\ existsSync(fs, analysisFile(worklog.repository))
          THEN /\ fs' = writeFileSync(fs, dashboardFile(worklog.repository),
                            dashboardOf(readFileSync(fs, analysisFile(worklog.repository))))
               /\ worklog' = completed(worklog, 4)
          ELSE /\ worklog' = failed(worklog, 4)
               /\ UNCHANGED fs
    /\ workLogFrame

\* node freelancer-worklog.js <repository> [--project <name>] [--since <date>]
InitWorkLog ==
    /\ analysisIdle
    /\ procs = <<>>
    /\ integration = <<>>
    /\ importer = <<>>
    /\ requests = <<>>
    /\ fs = [f \in WorkLogFiles |-> <<>>]
    /\ \E r \in Repositories, p \in Projects, s \in Sinces :
          worklog = newWorkLog(r, p, s)

NextWorkLog ==
    \/ processRepository
    \/ runGitAnalysis
    \/ generateCSVExport
    \/ generateSummaryReport
    \/ generateDashboardFile

SpecWorkLog == InitWorkLog /\ [][NextWorkLog]_vars

(* ------------------------------ claims -------------------------------- *)

ResultIndexes == 1..Len(results)

IsSortedByDate(cs) == \A k \in 1..(Len(cs) - 1) : cs[k].date <= cs[k + 1].date

\* every finalized session some completed call has returned
ReturnedSessions ==
    UNION { { results[r].sessions[j] : j \in 1..Len(results[r].sessions) } :
            r \in ResultIndexes }

\* the sessions of ss that hold commit c
SessionsWith(ss, c) ==
    { j \in 1..Len(ss) : \E m \in 1..Len(ss[j].commits) : ss[j].commits[m] = c }

RECURSIVE ConcatCommits(_)
ConcatCommits(ss) ==
    IF ss = <<>> THEN <<>> ELSE Head(ss).commits \o ConcatCommits(Tail(ss))

\* seconds between the first and the last commit of a session
SpanSeconds(s) == s.commits[Len(s.commits)].date - s.commits[1].date

\* the value an option was configured to: the given one, else the documented default
Configured(opt, dflt) == IF opt.given THEN opt.val ELSE dflt

C2_Partition ==
    \A r \in ResultIndexes :
        Len(results[r].commits) > 0 =>
            ConcatCommits(results[r].sessions) = results[r].commits

\* a returned list of several sessions, one of them with several commits
C2_Witness ==
    \E r \in ResultIndexes :
        /\ Len(results[r].sessions) >= 2
        /\ \E j \in 1..Len(results[r].sessions) : Len(results[r].sessions[j].commits) >= 2

C4_SingleCommitDuration ==
    \A s \in ReturnedSessions :
        Len(s.commits) = 1 =>
            s.duration = Configured(options.defaultSessionTime, 30)

\* C5 (as stated): every returned session lasts at least minSessionTime.
C5_DurationAtLeastMin ==
    \A s \in ReturnedSessions : s.duration >= minSessionTime

\* C5 (amended): every returned session of more than one commit lasts at
\* least minSessionTime; a single-commit session lasts defaultSessionTime,
\* floor or no floor.
C5_Amended ==
    \A s \in ReturnedSessions :
        /\ Len(s.commits) > 1 => s.duration >= minSessionTime
        /\ Len(s.commits) = 1 => s.duration = defaultSessionTime

\* a single-commit session below minSessionTime next to a multi-commit
\* session the floor has raised
C5_Witness ==
    /\ \E s \in ReturnedSessions : Len(s.commits) = 1 /\ s.duration < minSessionTime
    /\ \E s \in ReturnedSessions :
          /\ Len(s.commits) > 1
          /\ s.duration = minSessionTime
          /\ SpanSeconds(s) + defaultSessionTime * 60 < minSessionTime * 60

\* C6 (as stated): hours is the reported whole-minute duration / 60, rounded
\* to 2 decimals.
C6_HoursFromRoundedDuration ==
    \A s \in ReturnedSessions : s.hours = Round(s.duration * 100, 60)

\* the duration before rounding, in seconds, recomputed from the commits
UnroundedSeconds(s) ==
    IF Len(s.commits) = 1 THEN defaultSessionTime * 60
    ELSE Max(SpanSeconds(s) + defaultSessionTime * 60, minSessionTime * 60)

\* C6 (amended): hours is the duration before its rounding to whole minutes,
\* divided by 60 and rounded to 2 decimals; it is the reported duration / 60
\* rounded to 2 decimals when that duration was a whole number of minutes.
C6_Amended ==
    \A s \in ReturnedSessions :
        /\ s.hours = Round(UnroundedSeconds(s) * 100, 3600)
        /\ UnroundedSeconds(s) % 60 = 0 => s.hours = Round(s.duration * 100, 60)

\* a session off the whole minute whose hours differ from duration / 60
C6_Witness ==
    \E s \in ReturnedSessions :
        /\ UnroundedSeconds(s) % 60 # 0
        /\ s.hours # Round(s.duration * 100, 60)

\* C7 (as stated): analyzeSessions on the log in any order returns what it
\* returns on the log sorted by date (analyze passes it the sorted log).
C7_AnalyzeSessionsSorts ==
    \A q, r \in ResultIndexes :
        (results[q].mode = "analyzeSessions" /\ results[r].mode = "analyze")
            => results[q].sessions = results[r].sessions

\* cs is the stable ascending sort of log
IsStableSortOf(cs, log) ==
    /\ Len(cs) = Len(log)
    /\ IsSortedByDate(cs)
    /\ \A k \in 1..Len(log) : \E m \in 1..Len(cs) : cs[m] = log[k]
    /\ \A k \in 1..(Len(cs) - 1) :
          cs[k].date = cs[k + 1].date => cs[k].hash < cs[k + 1].hash

\* C7 (amended): analyze tolerates a log in any order because getCommits
\* sorts it (ascending by date, equal dates in log order) before
\* analyzeSessions partitions it; analyzeSessions itself does not sort, and
\* returns the same sessions as analyze when its list is already so sorted.
C7_Amended ==
    /\ \A r \in ResultIndexes :
          results[r].mode = "analyze" => IsStableSortOf(results[r].commits, gitlog)
    /\ \A q, r \in ResultIndexes :
          (/\ results[q].mode = "analyzeSessions"
           /\ results[r].mode = "analyze"
           /\ IsStableSortOf(gitlog, gitlog))
              => results[q].sessions = results[r].sessions
    /\ \A r \in ResultIndexes :
          results[r].mode = "analyzeSessions" => results[r].commits = gitlog

\* an out-of-order log with two commits of one date, analysed both ways
C7_Witness ==
    /\ ~IsSortedByDate(gitlog)
    /\ \E k, m \in 1..Len(gitlog) : k < m /\ gitlog[k].date = gitlog[m].date
    /\ \E q, r \in ResultIndexes :
          /\ results[q].mode = "analyzeSessions"
          /\ results[r].mode = "analyze"
          /\ results[q].sessions # results[r].sessions

\* two completed calls of the same method returned the same
SameCallsAgree ==
    \A q, r \in ResultIndexes :
        results[q].mode = results[r].mode => results[q] = results[r]

\* C8: two invocations on the same commit list and configuration return
\* identical results, no step changes an analyzer field, and the commit list
\* (the log, and the list a running call was given) is left as it was.
C8_DeterministicAndPure ==
    /\ []SameCallsAgree
    /\ [][/\ analyzer' = analyzer
          /\ gitlog' = gitlog
          /\ pc = "loop" => commits' = commits]_vars

\* the same method has completed twice on a log of several sessions
C8_Witness ==
    /\ Len(results) = 2
    /\ results[1].mode = results[2].mode
    /\ Len(results[1].sessions) >= 2
    /\ pc = "idle"

\* C9: for an empty commit list analyzeSessions returns an empty list and
\* analyze a record with sessions = [], totalHours = 0 and totalCommits = 0;
\* neither call fails (each returns at once).
C9_EmptyInput ==
    Len(gitlog) = 0 =>
        /\ pc = "idle"
        /\ \A r \in ResultIndexes :
              /\ results[r].sessions = <<>>
              /\ results[r].mode = "analyze" =>
                    /\ results[r].totalHours = 0
                    /\ results[r].totalCommits = 0

\* both methods have returned for an empty log
C9_Witness ==
    /\ Len(gitlog) = 0
    /\ \E r \in ResultIndexes : results[r].mode = "analyze"
    /\ \E r \in ResultIndexes : results[r].mode = "analyzeSessions"

\* C10: for an empty session list the weekly and daily maps are empty and
\* total hours, average session length and commits per hour are all 0, none
\* of them the result of a division by zero.
C10_EmptyAggregates ==
    \A d \in 1..Len(dashboard) :
        (\E r \in ResultIndexes : results[r].mode = "analyze" /\ results[r].sessions = <<>>)
            => /\ dashboard[d].weeklyData = <<>>
               /\ dashboard[d].dailyData = <<>>
               /\ dashboard[d].totalHours = 0
               /\ dashboard[d].averageSession = [text |-> "number", tenths |-> 0]
               /\ dashboard[d].commitsPerHour = [text |-> "number", tenths |-> 0]

\* the analysis records among the results
AnalysisIndexes == { r \in ResultIndexes : results[r].mode = "analyze" }

RECURSIVE SumOf(_, _)
\* the sum of field f over the buckets b, f one of "hours", "sessions", "commits"
SumOf(b, f) ==
    IF b = <<>> THEN 0
    ELSE SumOf(Tail(b), f) + (CASE f = "hours"    -> Head(b).hours
                                [] f = "sessions" -> Head(b).sessions
                                [] f = "commits"  -> Head(b).commits)

Abs(x) == IF x >= 0 THEN x ELSE -x

\* C11: the daily buckets' hours add up to the analysis' totalHours up to
\* the two roundings: per session at most half a minute (whole-minute
\* duration) plus half a hundredth of an hour (2-decimal hours).  In units
\* of 1/6000 hour that is 50 + 30 per session.
C11_DailyHoursSumToTotal ==
    \A d \in 1..Len(dashboard), r \in AnalysisIndexes :
        Abs(100 * SumOf(dashboard[d].dailyData, "hours") - 60 * results[r].totalHours)
            <= 80 * Len(results[r].sessions)

\* sessions on two days, two of them on one day, and a daily sum that is not
\* exactly totalHours
C11_Witness ==
    \E d \in 1..Len(dashboard), r \in AnalysisIndexes :
        /\ Len(dashboard[d].dailyData) = 2
        /\ Len(results[r].sessions) = 3
        /\ 100 * SumOf(dashboard[d].dailyData, "hours") # 60 * results[r].totalHours

\* C12: on a date-sorted list the sessions are returned in chronological
\* order and do not overlap: each ends no later than the next starts, and
\* starts no later than the next starts.
C12_ChronologicalSessions ==
    \A r \in ResultIndexes :
        IsSortedByDate(results[r].commits) =>
            \A j \in 1..(Len(results[r].sessions) - 1) :
                /\ results[r].sessions[j].end <= results[r].sessions[j + 1].start
                /\ results[r].sessions[j].start <= results[r].sessions[j + 1].start

\* a sorted list returned as a session with a span followed, later, by another
C12_Witness ==
    \E r \in ResultIndexes :
        /\ IsSortedByDate(results[r].commits)
        /\ Len(results[r].sessions) = 2
        /\ results[r].sessions[1].start < results[r].sessions[1].end
        /\ results[r].sessions[1].end < results[r].sessions[2].start

\* start and end are the dates of the first and the last commit
StartEndOfCommits(s) ==
    /\ s.start = s.commits[1].date
    /\ s.end = s.commits[Len(s.commits)].date

\* C13 (as stated): every returned session, and the session being
\* accumulated at every step, has start = date of its first commit, end =
\* date of its last commit, and start <= end.
C13_StartEnd ==
    /\ \A s \in ReturnedSessions : StartEndOfCommits(s) /\ s.start <= s.end
    /\ (pc = "loop" /\ currentSession # null)
          => StartEndOfCommits(currentSession) /\ currentSession.start <= currentSession.end

\* C13 (amended): start and end are the dates of the first and the last
\* commit of the session, returned or still being accumulated, for every
\* list; start <= end holds when the list is sorted by date (as the list
\* analyze passes is).
C13_Amended ==
    /\ \A s \in ReturnedSessions : StartEndOfCommits(s)
    /\ \A r \in ResultIndexes :
          (IsSortedByDate(results[r].commits) \/ results[r].mode = "analyze")
              => \A j \in 1..Len(results[r].sessions) :
                    results[r].sessions[j].start <= results[r].sessions[j].end
    /\ (pc = "loop" /\ currentSession # null)
          => /\ StartEndOfCommits(currentSession)
             /\ (IsSortedByDate(commits) \/ mode = "analyze")
                   => currentSession.start <= currentSession.end

\* a session of several commits and a span being accumulated from a sorted
\* list, after a call that returned such a session
C13_Witness ==
    /\ pc = "loop"
    /\ IsSortedByDate(commits)
    /\ Len(currentSession.commits) >= 2
    /\ currentSession.start < currentSession.end
    /\ \E s \in ReturnedSessions : Len(s.commits) >= 2 /\ s.start < s.end

\* C14: every returned session has a non-empty commits array, commitCount
\* equal to its length, and only commits of the session's author.
C14_SessionCommits ==
    \A s \in ReturnedSessions :
        /\ Len(s.commits) > 0
        /\ s.commitCount = Len(s.commits)
        /\ \A k \in 1..Len(s.commits) : s.commits[k].author = s.author

\* one list returned as a session of several commits and a session of the
\* other author, close in time
C14_Witness ==
    \E r \in ResultIndexes :
        \E j, k \in 1..Len(results[r].sessions) :
            /\ Len(results[r].sessions[j].commits) >= 2
            /\ results[r].sessions[j].author # results[r].sessions[k].author
            /\ Abs(results[r].sessions[k].start - results[r].sessions[j].end) <= 30

\* C15: the description of a session of one commit is that commit's
\* message; of k > 1 commits it is the first min(k, 3) messages joined with
\* "; ", followed by " (and N more commits)", N = k - 3, iff k > 3.
C15_Description ==
    \A s \in ReturnedSessions :
        LET k  == Len(s.commits)
            m1 == s.commits[1].message
            m2 == s.commits[2].message
            m3 == s.commits[3].message
        IN  /\ k = 1 => s.description = m1
            /\ k = 2 => s.description = m1 \o "; " \o m2
            /\ k = 3 => s.description = m1 \o "; " \o m2 \o "; " \o m3
            /\ k > 3 => s.description = m1 \o "; " \o m2 \o "; " \o m3
                                           \o " (and " \o ToString(k - 3) \o " more commits)"

\* a session of more than 3 commits and a session of 1 commit described
C15_Witness ==
    /\ \E s \in ReturnedSessions : Len(s.commits) = 1 /\ s.description = "fix 5"
    /\ \E s \in ReturnedSessions :
          /\ Len(s.commits) = 4
          /\ s.description = "fix 1; fix 2; fix 3 (and 1 more commits)"

\* the calendar day (days since 1970-01-01, a Thursday) of a date
DayOf(date) == date \div 86400

\* C16: as the README documents, a new session starts when the gap to the
\* previous commit exceeds maxSessionGap, when the commit falls on another
\* calendar day than the previous one, or when the author differs; so no
\* returned session holds commits of two calendar days.
C16_ReadmeBoundaries ==
    \A r \in ResultIndexes :
        LET cs == results[r].commits
            ss == results[r].sessions
        IN  IsSortedByDate(cs) =>
              /\ \A k \in 1..(Len(cs) - 1) :
                    (SessionsWith(ss, cs[k]) # SessionsWith(ss, cs[k + 1]))
                        <=> \/ cs[k + 1].date - cs[k].date > maxSessionGap * 3600
                            \/ DayOf(cs[k + 1].date) # DayOf(cs[k].date)
                            \/ cs[k + 1].author # cs[k].author
              /\ \A j \in 1..Len(ss) :
                    \A k, m \in 1..Len(ss[j].commits) :
                        DayOf(ss[j].commits[k].date) = DayOf(ss[j].commits[m].date)

RECURSIVE SumCommits(_)
SumCommits(ss) == IF ss = <<>> THEN 0 ELSE SumCommits(Tail(ss)) + Len(Head(ss).commits)

RECURSIVE SumDuration(_)
SumDuration(ss) == IF ss = <<>> THEN 0 ELSE SumDuration(Tail(ss)) + Head(ss).duration

\* C17: calculateWeeklyTotals counts every session in exactly one bucket,
\* that of the Sunday on or before the day of session.start; over all
\* buckets sessions, commits and hours add up to those of the input.
C17_WeeklyTotals ==
    \A d \in 1..Len(dashboard), r \in AnalysisIndexes :
        LET w  == dashboard[d].weeklyData
            ss == results[r].sessions
            In(j, b) == b.key <= DayOf(ss[j].start) /\ DayOf(ss[j].start) < b.key + 7
        IN  /\ \A a, b \in 1..Len(w) : w[a].key = w[b].key => a = b
            /\ \A b \in 1..Len(w) :
                  /\ w[b].key % 7 = 3
                  /\ w[b].sessions = Cardinality({ j \in 1..Len(ss) : In(j, w[b]) })
                  /\ w[b].sessions > 0
            /\ \A j \in 1..Len(ss) : \E b \in 1..Len(w) : In(j, w[b])
            /\ SumOf(w, "sessions") = Len(ss)
            /\ SumOf(w, "commits") = SumCommits(ss)
            /\ SumOf(w, "hours") = SumDuration(ss)

\* sessions of two weeks, one of them of several commits
C17_Witness ==
    \E d \in 1..Len(dashboard), r \in AnalysisIndexes :
        /\ Len(dashboard[d].weeklyData) = 2
        /\ SumCommits(results[r].sessions) > Len(results[r].sessions)

\* C18: calculateDailyTotals counts every session in exactly one bucket,
\* that of the calendar date of session.start, also when the session runs
\* past midnight; the buckets' session counts add up to the number of
\* sessions; for sessions in the analyzer's order the keys come out in
\* chronological order.
C18_DailyTotals ==
    \A d \in 1..Len(dashboard), r \in AnalysisIndexes :
        LET daily == dashboard[d].dailyData
            ss    == results[r].sessions
        IN  /\ \A b \in 1..Len(daily) :
                  /\ daily[b].sessions =
                        Cardinality({ j \in 1..Len(ss) : DayOf(ss[j].start) = daily[b].key })
                  /\ daily[b].sessions > 0
            /\ \A j \in 1..Len(ss) : \E b \in 1..Len(daily) : daily[b].key = DayOf(ss[j].start)
            /\ SumOf(daily, "sessions") = Len(ss)
            /\ \A b \in 1..(Len(daily) - 1) : daily[b].key < daily[b + 1].key

\* buckets of two days, the first holding a session that ends on the second
C18_Witness ==
    \E d \in 1..Len(dashboard), r \in AnalysisIndexes :
        /\ Len(dashboard[d].dailyData) = 2
        /\ \E j \in 1..Len(results[r].sessions) :
              /\ DayOf(results[r].sessions[j].start) = dashboard[d].dailyData[1].key
              /\ DayOf(results[r].sessions[j].end) = dashboard[d].dailyData[2].key

RECURSIVE SumSessionHours(_)
SumSessionHours(ss) ==
    IF ss = <<>> THEN 0 ELSE SumSessionHours(Tail(ss)) + Head(ss).hours

RECURSIVE SumCommitCount(_)
SumCommitCount(ss) ==
    IF ss = <<>> THEN 0 ELSE SumCommitCount(Tail(ss)) + Head(ss).commitCount

\* C19: in the record analyze returns, totalHours is the sum of the
\* sessions' hours (a number of 2 decimals), totalCommits the number of
\* commits of the log, and totalCommits the sum of the sessions' commitCount.
C19_AnalysisTotals ==
    \A r \in AnalysisIndexes :
        /\ results[r].totalHours = SumSessionHours(results[r].sessions)
        /\ results[r].totalCommits = Len(gitlog)
        /\ results[r].totalCommits = SumCommitCount(results[r].sessions)

\* an analysis of several sessions, one of several commits
C19_Witness ==
    \E r \in AnalysisIndexes :
        /\ Len(results[r].sessions) = 2
        /\ results[r].totalCommits = 3
        /\ results[r].totalHours > 100

\* C20: every option supplied to the constructor, 0 included, is the value
\* the analyzer uses; the default (2 hours, 15 minutes, 30 minutes) is used
\* only for an option that is not supplied.
C20_SuppliedOptionsUsed ==
    /\ maxSessionGap = Configured(options.maxSessionGap, 2)
    /\ minSessionTime = Configured(options.minSessionTime, 15)
    /\ defaultSessionTime = Configured(options.defaultSessionTime, 30)

\* the seconds [start, start + duration] a session accounts for
billedFrom(s) == s.start
billedUntil(s) == s.start + 60 * s.duration

\* C24: under the default configuration, two distinct sessions of the same
\* author returned by analyzeSessions for a date-ordered commit list never
\* overlap in their accounted intervals [start, start + duration], whatever
\* other authors' commits lie between them.
C24_NoDoubleBilling ==
    (\A f \in DOMAIN options : ~options[f].given) =>
        \A r \in { q \in ResultIndexes : IsSortedByDate(results[q].commits) } :
            \A j, k \in 1..Len(results[r].sessions) :
                LET s == results[r].sessions[j]
                    t == results[r].sessions[k]
                IN  (j # k /\ s.author = t.author) =>
                        \/ billedUntil(s) <= billedFrom(t)
                        \/ billedUntil(t) <= billedFrom(s)

\* the top-level fields the exporters, the summary and the import read
ConsumerFields == {"repository", "totalCommits", "totalSessions", "totalHours", "sessions"}

\* C30: every top-level field the consumers read is in the record analyze
\* returns, for empty and non-empty logs; totalSessions is there and equals
\* the number of sessions.
C30_ConsumerFieldsProduced ==
    \A r \in AnalysisIndexes :
        /\ ConsumerFields \subseteq DOMAIN results[r]
        /\ results[r].totalSessions = Len(results[r].sessions)

\* C22: analyzeAndImport given --since, --until or --author runs the Git
\* analysis and then imports its sessions, as it does without such an
\* option: when the command is done, the analyzer has been run and
\* importGitData has been called.
C22_FilteredAnalyzeAndImport ==
    (importer # <<>> /\ importer.command = "analyze" /\ importer.pc = "done") =>
        /\ importer.analysed
        /\ importer.imported

\* C25: for every session of the analysis being imported, the Kimai
\* timesheet has end - begin = session.duration minutes, the interval
\* [start, start + duration minutes] convertToCSV writes as Start Time and
\* End Time.
C25_ExportersAgree ==
    (importer # <<>> /\ importer.timesheets # <<>>) =>
        LET data == importer.analysisData[1]
            rows == convertToCSV(data, "")
        IN  \A j \in 1..Len(data.sessions) :
                /\ importer.timesheets[j].end - importer.timesheets[j].begin
                       = 60 * data.sessions[j].duration
                /\ toLocaleTimeString(importer.timesheets[j].begin) = rows[j].startTime
                /\ toLocaleTimeString(importer.timesheets[j].end) = rows[j].endTime

\* the requests that create a timesheet, in the order they were issued
isCreate(request) == request.endpoint = "/api/timesheets" /\ request.method = "POST"
creates == SelectSeq(requests, isCreate)

\* authenticate() has returned false: its request was answered and taken,
\* and importGitData did not get past `if (!authenticated)`
authenticationFailed ==
    /\ importer # <<>>
    /\ ~importer.authenticated
    /\ \E r \in 1..Len(requests) :
          requests[r].endpoint = "/api/auth" /\ requests[r].released

\* C26: no POST to /api/timesheets is issued unless authenticate has
\* returned true; when authentication fails (the request is rejected, or the
\* response has no token) authToken stays null, no timesheet is created, and
\* the failure is reported on the console, not thrown to the caller.
C26_NoCreateWithoutAuthentication ==
    /\ creates # <<>> => importer.authenticated /\ integration.authToken # NoToken
    /\ authenticationFailed =>
          /\ integration.authToken = NoToken
          /\ creates = <<>>
          /\ importer.console[Len(importer.console)]
                 = "Import failed: Failed to authenticate with Kimai"
          /\ ~importer.thrown
          /\ importer.successCount = 0

\* a 2xx response without a token failed the authentication of an import of
\* two sessions, which has returned
C26_Witness ==
    /\ authenticationFailed
    /\ importer.pc = "done"
    /\ Len(importer.analysisData[1].sessions) = 2
    /\ requests[1].promise = "resolved"

\* C27: after a successful authentication the create requests are issued one
\* per session, in session order, each only after the previous request has
\* settled; a create that failed is followed by the remaining ones; when the
\* import is over one request per session has been issued and successCount +
\* failCount is the number of sessions.
C27_OneCreatePerSession ==
    importer # <<>> =>
        /\ \A r \in 1..(Len(requests) - 1) : requests[r].promise # "pending"
        /\ Len(creates) <= Len(importer.timesheets)
        /\ \A j \in 1..Len(creates) : creates[j].data = importer.timesheets[j]
        /\ (importer.authenticated /\ importer.pc \in {"return", "done"}) =>
              /\ Len(creates) = Len(importer.analysisData[1].sessions)
              /\ importer.successCount + importer.failCount
                     = Len(importer.analysisData[1].sessions)

\* an import of two sessions is over: the first create was rejected, the
\* second one succeeded
C27_Witness ==
    /\ importer # <<>>
    /\ importer.pc = "done"
    /\ Len(creates) = 2
    /\ creates[1].promise = "rejected"
    /\ creates[2].promise = "resolved"
    /\ importer.successCount = 1
    /\ importer.failCount = 1

\* what makeRequest resolves with for a complete 2xx response
resolvedValue(responseData) ==
    IF responseData = "" THEN jsObject(NoToken)
    ELSE IF JSONparse(responseData).ok THEN JSONparse(responseData).value
    ELSE jsString(responseData)

\* C28: makeRequest settles exactly once: it resolves iff the response
\* completes with a status code in 200..299 (with the parsed JSON body, {}
\* for an empty body, the raw text when the body is not JSON), rejects for
\* every other status code and for every transport error; once authToken is
\* set every request carries the Authorization: Bearer header.
C28_MakeRequestSettles ==
    \A r \in 1..Len(requests) :
        LET q == requests[r]
        IN  /\ q.transport = "ended" =>
                  /\ q.promise = "resolved" <=> q.statusCode \in 200..299
                  /\ q.promise = "rejected" <=> q.statusCode \notin 200..299
                  /\ (q.promise = "resolved" /\ ~q.released) =>
                         q.value = resolvedValue(q.responseData)
            /\ q.transport \in {"error", "aborted"} => q.promise = "rejected"
            /\ q.transport \in {"sent", "responding"} => q.promise = "pending"
            /\ isCreate(q) => q.authorization = "Bearer " \o integration.authToken


\* the exporter processes that were started
Started == { p \in DOMAIN procs : procs[p].pc # "off" }

\* the process has ended, by process.exit(1) or after its last statement
ended(p) == procs[p].pc \in {"exit0", "exit1"}

\* C21: when the exporter CLI is run with --summary and analyzeAndExport
\* succeeds, the summary report time-summary.txt is generated from the
\* analysis data of that run: once a process running alone has ended, the
\* report of its repository's analysis is there.
C21_SummaryGenerated ==
    \A p \in Started :
        (Started = {p} /\ procs[p].summary /\ procs[p].exported /\ ended(p)) =>
            /\ existsSync(fs, summaryFile(p))
            /\ readFileSync(fs, summaryFile(p))
                   = generateSummary(gitAnalyzer(procs[p].repository))

\* C29: two exports for different repositories that overlap in time each
\* produce their output from their own repository's analysis and each
\* complete successfully: no run reads analysis data the other run wrote, and
\* no run fails because the other run deleted the temp file.
C29_ConcurrentExports ==
    \A p, q \in Started :
        (p # q /\ procs[p].repository # procs[q].repository) =>
            /\ procs[p].pc # "exit1"
            /\ procs[p].analysisData # <<>> =>
                   procs[p].analysisData[1] = gitAnalyzer(procs[p].repository)
            /\ existsSync(fs, outputFile(p)) =>
                   readFileSync(fs, outputFile(p))
                       = convertToCSV(gitAnalyzer(procs[p].repository), "")
            /\ existsSync(fs, summaryFile(p)) =>
                   readFileSync(fs, summaryFile(p))
                       = generateSummary(gitAnalyzer(procs[p].repository))

\* the events of a run in which every step succeeds
AllSteps ==
    [n \in 1..(2 * Len(Steps)) |->
        [step |-> Steps[(n + 1) \div 2], event |-> IF n % 2 = 1 THEN "start" ELSE "end"]]

\* the step has started
hasStarted(step) ==
    \E n \in 1..Len(worklog.log) :
        worklog.log[n] = [step |-> step, event |-> "start"]

\* C23: processRepository runs Git analysis, CSV export, summary report and
\* dashboard strictly in this order, each step starting only after the
\* previous one has completed; the analysis file is written before the
\* summary and dashboard steps read it; when a step fails no later step runs
\* and the error is rethrown; on success the four output paths are returned.
C23_ProcessRepository ==
    worklog # <<>> =>
        LET log == worklog.log
        IN  /\ Len(log) <= Len(AllSteps)
            /\ \A n \in 1..Len(log) :
                  \/ log[n] = AllSteps[n]
                  \/ /\ log[n] = [step |-> AllSteps[n].step, event |-> "fail"]
                     /\ AllSteps[n].event = "end"
                     /\ n = Len(log)
                     /\ worklog.outcome = "thrown"
            /\ worklog.outcome = "thrown" =>
                  /\ log[Len(log)].event = "fail"
                  /\ worklog.returned = <<>>
            /\ (hasStarted("summary") \/ hasStarted("dashboard")) =>
                  /\ existsSync(fs, analysisFile(worklog.repository))
                  /\ readFileSync(fs, analysisFile(worklog.repository))
                         = gitAnalyzer(worklog.repository)
            /\ worklog.outcome = "returned" <=> log = AllSteps
            /\ worklog.outcome = "returned" =>
                  /\ worklog.returned =
                         <<[analysis  |-> analysisFile(worklog.repository),
                            csv       |-> csvFile(worklog.repository),
                            summary   |-> summaryReportFile(worklog.repository),
                            dashboard |-> dashboardFile(worklog.repository)]>>
                  /\ \A f \in {analysisFile(worklog.repository), csvFile(worklog.repository),
                               summaryReportFile(worklog.repository),
                               dashboardFile(worklog.repository)} : existsSync(fs, f)

\* the four steps have run for a repository of two sessions and the paths
\* were returned
C23_Witness ==
    /\ worklog # <<>>
    /\ worklog.outcome = "returned"
    /\ Len(readFileSync(fs, analysisFile(worklog.repository)).sessions) = 2
    /\ Len(readFileSync(fs, csvFile(worklog.repository))) = 2

====
